---- MODULE Spec2Model ----
(***************************************************************************)
(* A model of alphafold2.py: Attention (masked scaled dot-product          *)
(* attention), AxialAttention (two 1-D passes over a 2-D grid) and the     *)
(* Alphafold2 trunk (embedding, the layer loop, the distogram head).       *)
(*                                                                         *)
(* Three specifications share the module:                                  *)
(*   SpecAttn   Attention.forward with its arithmetic (scores, mask fill,  *)
(*              softmax, weighted sum) on an integer score scale;           *)
(*   SpecAxial  AxialAttention.forward: the two rearranges, the two        *)
(*              Attention calls, the sum, with every output cell carrying  *)
(*              the set of input cells its value is computed from;         *)
(*   Spec       Alphafold2.forward, statement by statement, with tensor    *)
(*              shapes, the sub-layer modules applied, and for every cell  *)
(*              of x the set of seq positions it is computed from.         *)
(***************************************************************************)
EXTENDS Integers, Sequences, FiniteSets, TLC

VARIABLES
    at_pc, at_in, at_qkv, at_dots, at_attn, at_out,    \* Attention.forward
    ax_pc, ax_in, ax_w, ax_h, ax_out,                  \* AxialAttention.forward
    cfg, pc, inp, li, t, calls, out                    \* Alphafold2

at_vars == <<at_pc, at_in, at_qkv, at_dots, at_attn, at_out>>
ax_vars == <<ax_pc, ax_in, ax_w, ax_h, ax_out>>
tr_vars == <<cfg, pc, inp, li, t, calls, out>>
vars == <<at_vars, ax_vars, tr_vars>>

\* ------------------------------------------------------------------------
\* Bounds of the model
\* ------------------------------------------------------------------------
CellMax == 4     \* Attention: input (b, n, .) and mask (mb, mn) have at most CellMax positions
SeqMax == 4      \* Alphafold2: seq (batch, length) has at most SeqMax positions
GridMax == 6     \* a (batch, H, W) grid given to AxialAttention has at most GridMax cells
AMax == 2        \* alignments per MSA 1..AMax
DMax == 2        \* depth 0..DMax
MaxX == 1        \* attention input features 0..MaxX

\* ------------------------------------------------------------------------
\* Program constants
\* ------------------------------------------------------------------------
NUM_AMINO_ACIDS == 21
DISTOGRAM_BUCKETS == 37

\* torch.finfo(dots.dtype).max on the model's integer score scale: the largest
\* finite value, far above every score the model computes.
FltMax == 1000000000
\* exp(d) is exactly 0 in float32 for d <= -ExpUnderflow.
ExpUnderflow == 104

\* ------------------------------------------------------------------------
\* Helpers
\* ------------------------------------------------------------------------
RECURSIVE SumSeq(_)
SumSeq(s) == IF s = <<>> THEN 0 ELSE Head(s) + SumSeq(Tail(s))

MaxSeq(s) == CHOOSE v \in {s[i] : i \in 1..Len(s)} :
                 \A i \in 1..Len(s) : s[i] <= v

\* Saturating subtraction: floats do not wrap, a difference below -FltMax
\* stays at the bottom of the range.
FSub(a, b) == IF a - b < -FltMax THEN -FltMax ELSE a - b

\* ------------------------------------------------------------------------
\* Masks.  A mask tensor of shape (mb, mn), or no mask (mask = None).
\* ------------------------------------------------------------------------
NoMask == [present |-> FALSE, mb |-> 0, mn |-> 0, val |-> <<>>]

MasksOfShape(r, c) ==
    {[present |-> TRUE, mb |-> r, mn |-> c, val |-> v] :
        v \in [1..r -> [1..c -> BOOLEAN]]}

\* The shapes (r, c) of 2-D tensors with at most `cells` elements
Shapes2(cells) == {s \in (1..cells) \X (1..cells) : s[1] * s[2] <= cells}

Masks == {NoMask} \cup UNION {MasksOfShape(s[1], s[2]) : s \in Shapes2(CellMax)}

exists(val) == val.present

\* Broadcasting of one dimension of size `from` against a dimension of size
\* `to` (masked_fill_ works in place: only the mask may be expanded).
Broadcastable(from, to) == from = 1 \/ from = to
Bsel(size, idx) == IF size = 1 THEN 1 ELSE idx

\* masked_fill_ of dots (B, heads, n, n) with the mask product (mb, 1, mn, mn)
MaskFits(mask, B, n) == Broadcastable(mask.mb, B) /\ Broadcastable(mask.mn, n)

\* mask[:, None, :, None] * mask[:, None, None, :], read at (k, i, j) of the
\* broadcast result
KeyOnlyMask(mask, k, i, j) == mask.val[Bsel(mask.mb, k)][Bsel(mask.mn, j)]
PairMask(mask, k, i, j) ==
    /\ mask.val[Bsel(mask.mb, k)][Bsel(mask.mn, i)]
    /\ mask.val[Bsel(mask.mb, k)][Bsel(mask.mn, j)]

\* The mask entry of position i of batch element k, as broadcast
MaskAt(mask, k, i) == mask.val[Bsel(mask.mb, k)][Bsel(mask.mn, i)]

\* ------------------------------------------------------------------------
\* Attention.forward, arithmetic (one head of width 1: heads are independent
\* and the mask is broadcast over the head axis; scale = 1 ** -0.5 = 1)
\* ------------------------------------------------------------------------
MaskValue == -FltMax

\* exp on non-positive arguments, in thousandths (exp(0) = 1000); positive
\* down to the underflow threshold, exactly 0 from there on
ExpTable == <<1000, 368, 135, 50, 18, 7, 2>>
ExpFx(d) == IF d <= -ExpUnderflow THEN 0
            ELSE IF -d < Len(ExpTable) THEN ExpTable[-d + 1]
            ELSE 1

\* to_qkv: one linear map without bias, split into q, k, v
ToQKV(W, x) == [q |-> [bb \in DOMAIN x |-> [i \in DOMAIN x[bb] |-> W.q * x[bb][i]]],
                k |-> [bb \in DOMAIN x |-> [i \in DOMAIN x[bb] |-> W.k * x[bb][i]]],
                v |-> [bb \in DOMAIN x |-> [i \in DOMAIN x[bb] |-> W.v * x[bb][i]]]]

\* einsum('b h i d, b h j d -> b h i j', q, k) * self.scale
Dots(q, k) == [bb \in DOMAIN q |->
                 [i \in DOMAIN q[bb] |-> [j \in DOMAIN k[bb] |-> q[bb][i] * k[bb][j]]]]

\* dots.masked_fill_(~mask, mask_value)
MaskedFillDiscarded(dots, mask) == dots
MaskedFill(dots, mask) ==
    [bb \in DOMAIN dots |->
        [i \in DOMAIN dots[bb] |->
            [j \in DOMAIN dots[bb][i] |->
                IF PairMask(mask, bb, i, j) THEN dots[bb][i][j] ELSE MaskValue]]]

\* softmax over the key axis: exp(row - max(row)) / sum
SoftmaxRow(row) ==
    LET mx == MaxSeq(row)
        e  == [j \in DOMAIN row |-> ExpFx(FSub(row[j], mx))]
    IN  [num |-> e, den |-> SumSeq(e)]

Softmax(dots) == [bb \in DOMAIN dots |-> [i \in DOMAIN dots[bb] |-> SoftmaxRow(dots[bb][i])]]

\* einsum('b h i j, b h j d -> b h i d', attn, v): numerator over attn's den
WeightedSum(attn, v) ==
    [bb \in DOMAIN attn |->
        [i \in DOMAIN attn[bb] |->
            [num |-> SumSeq([j \in DOMAIN v[bb] |-> attn[bb][i].num[j] * v[bb][j]]),
             den |-> attn[bb][i].den]]]

\* to_out: Linear(inner_dim, dim)
ToOut(W, av) ==
    [bb \in DOMAIN av |->
        [i \in DOMAIN av[bb] |->
            [num |-> W.o * av[bb][i].num + W.bo * av[bb][i].den,
             den |-> av[bb][i].den]]]

\* The weights of one Attention module (to_qkv without bias, to_out)
AtWeights == [q : {1}, k : {-1, 1}, v : {1}, o : {1}, bo : {0}]

\* ------------------------------------------------------------------------
\* Attention.forward, data flow.  A tensor of shape (B, n, d) is
\* [B, n, dep] with dep[k][i] the set of sources the vector at (k, i) is
\* computed from.  The weight of query i on key j is non-zero exactly when
\* AttnSupport holds (the arithmetic above; lemma AtSupportExact).
\* ------------------------------------------------------------------------
Raised == [raised |-> TRUE]

AttnSupportUnmasked(mask, n, k, i, j) == TRUE
AttnSupport(mask, n, k, i, j) ==
    \/ ~exists(mask)
    \/ PairMask(mask, k, i, j)
    \/ \A jj \in 1..n : ~PairMask(mask, k, i, jj)

Attention(xs, mask) ==
    IF exists(mask) /\ ~MaskFits(mask, xs.B, xs.n)
    THEN Raised
    ELSE [raised |-> FALSE, B |-> xs.B, n |-> xs.n,
          dep |-> [k \in 1..xs.B |-> [i \in 1..xs.n |->
                     xs.dep[k][i] \cup
                     UNION {xs.dep[k][j] : j \in {jj \in 1..xs.n :
                                AttnSupport(mask, xs.n, k, i, jj)}}]]]

\* ------------------------------------------------------------------------
\* AxialAttention.forward.  A grid of shape (b, h, w, d) is [b, h, w, dep]
\* with dep a function on the cells <<bb, i, j>>.
\* ------------------------------------------------------------------------
Cells(b, h, w) == (1..b) \X (1..h) \X (1..w)

\* rearrange(x, 'b h w d -> (b w) h d')
FoldW(x) ==
    [B |-> x.b * x.w, n |-> x.h,
     dep |-> [k \in 1..(x.b * x.w) |-> [i \in 1..x.h |->
                x.dep[<<((k - 1) \div x.w) + 1, i, ((k - 1) % x.w) + 1>>]]]]

\* rearrange(w_out, '(b w) h d -> b h w d', h = h, w = w)
UnfoldW_wb(r, b, h, w) ==
    [c \in Cells(b, h, w) |-> r.dep[(c[3] - 1) * b + c[1]][c[2]]]
UnfoldW(r, b, h, w) ==
    [c \in Cells(b, h, w) |-> r.dep[(c[1] - 1) * w + c[3]][c[2]]]

\* rearrange(x, 'b h w d -> (b h) w d')
FoldH(x) ==
    [B |-> x.b * x.h, n |-> x.w,
     dep |-> [k \in 1..(x.b * x.h) |-> [j \in 1..x.w |->
                x.dep[<<((k - 1) \div x.h) + 1, ((k - 1) % x.h) + 1, j>>]]]]

\* rearrange(h_out, '(b h) w d -> b h w d', h = h, w = w)
UnfoldH(r, b, h, w) ==
    [c \in Cells(b, h, w) |-> r.dep[(c[1] - 1) * h + c[2]][c[3]]]

\* lines 103-105: w_out, with the shape attn_width was called on
WidthPass(x, mask) ==
    LET w_x == FoldW(x)
        r   == Attention(w_x, mask)
    IN  IF r.raised THEN Raised
        ELSE [raised |-> FALSE, called |-> [B |-> w_x.B, n |-> w_x.n],
              dep |-> UnfoldW(r, x.b, x.h, x.w)]

\* lines 107-109: h_out, with the shape attn_height was called on
HeightPass(x, mask) ==
    LET h_x == FoldH(x)
        r   == Attention(h_x, mask)
    IN  IF r.raised THEN Raised
        ELSE [raised |-> FALSE, called |-> [B |-> h_x.B, n |-> h_x.n],
              dep |-> UnfoldH(r, x.b, x.h, x.w)]

\* line 111: w_out + h_out
AxialSum(x, wo, ho) ==
    [raised |-> FALSE, b |-> x.b, h |-> x.h, w |-> x.w,
     dep |-> [c \in Cells(x.b, x.h, x.w) |-> wo.dep[c] \cup ho.dep[c]]]

AxialAttention(x, mask) ==
    LET wo == WidthPass(x, mask)
        ho == HeightPass(x, mask)
    IN  IF wo.raised \/ ho.raised THEN Raised ELSE AxialSum(x, wo, ho)

\* The shapes (b, h, w) of grids with at most `cells` cells
Shapes3(cells) ==
    {s \in (1..cells) \X (1..cells) \X (1..cells) : s[1] * s[2] * s[3] <= cells}

AtIdle ==
    /\ at_pc = "idle" /\ at_in = <<>> /\ at_qkv = <<>>
    /\ at_dots = <<>> /\ at_attn = <<>> /\ at_out = <<>>
AxIdle ==
    /\ ax_pc = "idle" /\ ax_in = <<>> /\ ax_w = <<>> /\ ax_h = <<>> /\ ax_out = <<>>
TrIdle ==
    /\ cfg = <<>> /\ pc = "idle" /\ inp = <<>> /\ li = 0
    /\ t = <<>> /\ calls = <<>> /\ out = <<>>

AtInit ==
    /\ at_pc = "start"
    /\ \E s \in Shapes2(CellMax) : \E x \in [1..s[1] -> [1..s[2] -> 0..MaxX]] :
       \E W \in AtWeights : \E mask \in Masks :
          at_in = [b |-> s[1], n |-> s[2], x |-> x, W |-> W, mask |-> mask]
    /\ at_qkv = <<>> /\ at_dots = <<>> /\ at_attn = <<>> /\ at_out = <<>>

\* lines 75-77
AtProject ==
    /\ at_pc = "start"
    /\ at_qkv' = ToQKV(at_in.W, at_in.x)
    /\ at_dots' = Dots(at_qkv'.q, at_qkv'.k)
    /\ at_pc' = "scored"
    /\ UNCHANGED <<at_in, at_attn, at_out>>

\* lines 79-82
AtMask ==
    /\ at_pc = "scored"
    /\ IF ~exists(at_in.mask)
       THEN at_pc' = "masked" /\ UNCHANGED at_dots
       ELSE IF MaskFits(at_in.mask, at_in.b, at_in.n)
            THEN at_pc' = "masked" /\ at_dots' = MaskedFill(at_dots, at_in.mask)
            ELSE at_pc' = "error" /\ UNCHANGED at_dots
    /\ UNCHANGED <<at_in, at_qkv, at_attn, at_out>>

\* lines 84-85 (dropout is the identity in eval mode / at rate 0)
AtSoftmax ==
    /\ at_pc = "masked"
    /\ at_attn' = Softmax(at_dots)
    /\ at_pc' = "softmaxed"
    /\ UNCHANGED <<at_in, at_qkv, at_dots, at_out>>

\* lines 87-89
AtOut ==
    /\ at_pc = "softmaxed"
    /\ at_out' = [av  |-> WeightedSum(at_attn, at_qkv.v),
                  ret |-> ToOut(at_in.W, WeightedSum(at_attn, at_qkv.v))]
    /\ at_pc' = "returned"
    /\ UNCHANGED <<at_in, at_qkv, at_dots, at_attn>>

AtNext ==
    \/ AtProject /\ UNCHANGED <<ax_vars, tr_vars>>
    \/ AtMask /\ UNCHANGED <<ax_vars, tr_vars>>
    \/ AtSoftmax /\ UNCHANGED <<ax_vars, tr_vars>>
    \/ AtOut /\ UNCHANGED <<ax_vars, tr_vars>>

InitAttn == AtInit /\ AxIdle /\ TrIdle

SpecAttn == InitAttn /\ [][AtNext]_vars

\* A call AxialAttention.forward(x, mask = mask): every cell of x is its own
\* source.
AxInit ==
    /\ ax_pc = "start"
    /\ \E s \in Shapes3(GridMax) : \E mask \in Masks :
          ax_in = [x |-> [b |-> s[1], h |-> s[2], w |-> s[3],
                          dep |-> [c \in Cells(s[1], s[2], s[3]) |-> {c}]],
                   mask |-> mask]
    /\ ax_w = <<>> /\ ax_h = <<>> /\ ax_out = <<>>

\* lines 103-105
AxWidth ==
    /\ ax_pc = "start"
    /\ ax_w' = WidthPass(ax_in.x, ax_in.mask)
    /\ ax_pc' = IF ax_w'.raised THEN "error" ELSE "width_done"
    /\ UNCHANGED <<ax_in, ax_h, ax_out>>

\* lines 107-109
AxHeight ==
    /\ ax_pc = "width_done"
    /\ ax_h' = HeightPass(ax_in.x, ax_in.mask)
    /\ ax_pc' = IF ax_h'.raised THEN "error" ELSE "height_done"
    /\ UNCHANGED <<ax_in, ax_w, ax_out>>

\* line 111
AxSum ==
    /\ ax_pc = "height_done"
    /\ ax_out' = AxialSum(ax_in.x, ax_w, ax_h)
    /\ ax_pc' = "returned"
    /\ UNCHANGED <<ax_in, ax_w, ax_h>>

AxNext ==
    \/ AxWidth /\ UNCHANGED <<at_vars, tr_vars>>
    \/ AxHeight /\ UNCHANGED <<at_vars, tr_vars>>
    \/ AxSum /\ UNCHANGED <<at_vars, tr_vars>>

InitAxial == AxInit /\ AtIdle /\ TrIdle

SpecAxial == InitAxial /\ [][AxNext]_vars

\* ------------------------------------------------------------------------
\* Alphafold2
\* ------------------------------------------------------------------------
\* __init__: the embedding tables
TokenEmbRows(c) == NUM_AMINO_ACIDS
PosEmbRows(c) == c.max_seq_len

\* __init__: self.layers[l] and self.msa_layers[l], each sub-layer wrapped in
\* PreNorm
Layers(l) ==
    <<[stack |-> "layers", layer |-> l, slot |-> 1, kind |-> "AxialAttention"],
      [stack |-> "layers", layer |-> l, slot |-> 2, kind |-> "AxialAttention"],
      [stack |-> "layers", layer |-> l, slot |-> 3, kind |-> "FeedForward"]>>
MsaLayers(l) ==
    <<[stack |-> "msa_layers", layer |-> l, slot |-> 1, kind |-> "Attention"],
      [stack |-> "msa_layers", layer |-> l, slot |-> 2, kind |-> "Attention"],
      [stack |-> "msa_layers", layer |-> l, slot |-> 3, kind |-> "FeedForward"]>>

\* the unpacking of zip(self.layers, self.msa_layers) in the loop header
attn(l) == Layers(l)[1]
cross_attn(l) == Layers(l)[2]
ff(l) == Layers(l)[3]
msa_attn(l) == MsaLayers(l)[1]
msa_cross_attn(l) == MsaLayers(l)[2]
msa_ff(l) == MsaLayers(l)[3]

\* nn.Embedding lookup: every index must be below the number of rows
Embedding(rows, maxIndex) == maxIndex < rows

\* lines 159-161: x0[b, i] comes from seq[b, i]; x[b, i, j] = x0[b, i] + x0[b, j]
PairwiseEmbed(b, n) ==
    [b |-> b, h |-> n, w |-> n, src |-> {"seq"},
     dep |-> [c \in Cells(b, n, n) |-> {<<c[1], c[2]>>, <<c[1], c[3]>>}]]

\* lines 165-167: m of shape (b, (m n), d)
MsaEmbed(b, a, n) == [B |-> b, n |-> a * n, src |-> {"msa"}]

\* line 170: rearrange(msa_mask, 'b m n -> b (m n)'); only the shape of
\* msa_mask is modelled
FlattenMsaMask(msa_mask) ==
    IF exists(msa_mask)
    THEN [present |-> TRUE, mb |-> msa_mask.b, mn |-> msa_mask.m * msa_mask.n]
    ELSE NoMask

\* the residual additions fx + x on the pairwise track and fm + m on the MSA
\* track: the sum is computed from both operands
AddPair(fx, x) ==
    [x EXCEPT !.dep = [c \in DOMAIN x.dep |-> fx.dep[c] \cup x.dep[c]],
              !.src = fx.src \cup x.src]
AddMsa(fm, m) == [m EXCEPT !.src = fm.src \cup m.src]

\* line 175: x = attn(x, mask = mask) + x
Line175(tt, mask) ==
    LET r == AxialAttention(tt.x, mask)
    IN  IF r.raised THEN Raised
        ELSE [raised |-> FALSE,
              x |-> AddPair([dep |-> r.dep,
                             src |-> tt.x.src \cup (IF exists(mask) THEN {"mask"} ELSE {})],
                            tt.x),
              m |-> tt.m]

\* line 176: m = msa_attn(m, mask = msa_mask) + m
Line176(tt, msa_mask) ==
    IF exists(msa_mask) /\ ~MaskFits(msa_mask, tt.m.B, tt.m.n)
    THEN Raised
    ELSE [raised |-> FALSE, x |-> tt.x,
          m |-> AddMsa([src |-> tt.m.src \cup
                                 (IF exists(msa_mask) THEN {"msa_mask"} ELSE {})],
                       tt.m)]

\* line 178: x = ff(x) + x (LayerNorm and FeedForward act on each cell alone,
\* so ff(x) is computed cell by cell from x)
Line178_ReadsM(tt) ==
    [tt EXCEPT !.x = AddPair([dep |-> tt.x.dep, src |-> tt.m.src], tt.x)]
Line178(tt) == [tt EXCEPT !.x = AddPair(tt.x, tt.x)]

\* line 179: m = ff(m) + m
Line179(tt) == [tt EXCEPT !.m = AddMsa(tt.m, tt.m)]

\* lines 181-182: LayerNorm, then Linear(dim, DISTOGRAM_BUCKETS) on each cell
Logits(x) ==
    [shape |-> <<x.b, x.h, x.w, DISTOGRAM_BUCKETS>>, dep |-> x.dep, src |-> x.src]

Call(mod, on) == [mod |-> mod, on |-> on]

\* the largest token index of a tensor: the last valid row of the table or
\* the first index past it
TokVals == {NUM_AMINO_ACIDS - 1, NUM_AMINO_ACIDS}

\* Alphafold2(dim, max_seq_len, depth, num_tokens)
TrInit ==
    /\ cfg \in [depth : 0..DMax,
                 max_seq_len : {SeqMax - 1, SeqMax},
                 num_tokens : (NUM_AMINO_ACIDS - 1)..(NUM_AMINO_ACIDS + 1)]
    /\ pc = "constructed"
    /\ inp = <<>> /\ li = 0 /\ t = <<>> /\ calls = <<>> /\ out = <<>>

\* forward(seq, msa, mask, msa_mask), lines 155-170
Embed ==
    /\ pc = "constructed"
    /\ \E s \in Shapes2(SeqMax) : \E a \in 1..AMax :
       \E seqTok \in TokVals : \E msaTok \in TokVals :
       \E mask \in {NoMask} \cup MasksOfShape(s[1], s[2]) :
       \E msa_mask \in {NoMask, [present |-> TRUE, b |-> s[1], m |-> a, n |-> s[2]]} :
          /\ inp' = [b |-> s[1], n |-> s[2], a |-> a, seqTok |-> seqTok,
                     msaTok |-> msaTok, mask |-> mask, msa_mask |-> msa_mask]
          /\ IF /\ Embedding(TokenEmbRows(cfg), seqTok)
                /\ Embedding(PosEmbRows(cfg), s[2] - 1)
                /\ Embedding(TokenEmbRows(cfg), msaTok)
             THEN /\ t' = [x |-> PairwiseEmbed(s[1], s[2]), m |-> MsaEmbed(s[1], a, s[2])]
                  /\ li' = 1
                  /\ pc' = IF cfg.depth >= 1 THEN "line175" ELSE "line181"
                  /\ out' = out
             ELSE /\ pc' = "error"
                  /\ out' = [raised |-> "IndexError"]
                  /\ UNCHANGED <<t, li>>
    /\ UNCHANGED <<cfg, calls>>

\* line 175
PairAttn ==
    /\ pc = "line175"
    /\ LET r == Line175(t, inp.mask)
       IN  IF r.raised
           THEN /\ pc' = "error"
                /\ out' = [raised |-> "RuntimeError"]
                /\ UNCHANGED <<t, calls>>
           ELSE /\ t' = [x |-> r.x, m |-> r.m]
                /\ calls' = Append(calls, Call(attn(li), "x"))
                /\ pc' = "line176"
                /\ out' = out
    /\ UNCHANGED <<cfg, inp, li>>

\* line 176
MsaAttn ==
    /\ pc = "line176"
    /\ LET r == Line176(t, FlattenMsaMask(inp.msa_mask))
       IN  IF r.raised
           THEN /\ pc' = "error"
                /\ out' = [raised |-> "RuntimeError"]
                /\ UNCHANGED <<t, calls>>
           ELSE /\ t' = [x |-> r.x, m |-> r.m]
                /\ calls' = Append(calls, Call(msa_attn(li), "m"))
                /\ pc' = "line178"
                /\ out' = out
    /\ UNCHANGED <<cfg, inp, li>>

\* line 178
PairFF ==
    /\ pc = "line178"
    /\ t' = Line178(t)
    /\ calls' = Append(calls, Call(ff(li), "x"))
    /\ pc' = "line179"
    /\ UNCHANGED <<cfg, inp, li, out>>

\* line 179, and the loop header
MsaFF ==
    /\ pc = "line179"
    /\ t' = Line179(t)
    /\ calls' = Append(calls, Call(ff(li), "m"))
    /\ IF li < cfg.depth
       THEN li' = li + 1 /\ pc' = "line175"
       ELSE li' = li /\ pc' = "line181"
    /\ UNCHANGED <<cfg, inp, out>>

\* lines 181-182
Final ==
    /\ pc = "line181"
    /\ out' = Logits(t.x)
    /\ pc' = "done"
    /\ UNCHANGED <<cfg, inp, li, t, calls>>

Next ==
    \/ Embed /\ UNCHANGED <<at_vars, ax_vars>>
    \/ PairAttn /\ UNCHANGED <<at_vars, ax_vars>>
    \/ MsaAttn /\ UNCHANGED <<at_vars, ax_vars>>
    \/ PairFF /\ UNCHANGED <<at_vars, ax_vars>>
    \/ MsaFF /\ UNCHANGED <<at_vars, ax_vars>>
    \/ Final /\ UNCHANGED <<at_vars, ax_vars>>

Init == TrInit /\ AtIdle /\ AxIdle

Spec == Init /\ [][Next]_vars

\* ------------------------------------------------------------------------
\* Properties of Alphafold2.forward
\* ------------------------------------------------------------------------
Called == pc # "constructed"
Embedded == pc \notin {"constructed", "error"} \/ (pc = "error" /\ t # <<>>)

\* the inputs are in range whatever table size is meant: tokens below both
\* num_tokens and the table's rows, length within max_seq_len
InputsInRange ==
    /\ inp.seqTok < cfg.num_tokens /\ inp.seqTok < NUM_AMINO_ACIDS
    /\ inp.msaTok < cfg.num_tokens /\ inp.msaTok < NUM_AMINO_ACIDS
    /\ inp.n <= cfg.max_seq_len

\* C1 as stated: on every valid configuration and input, with or without the
\* masks of the documented shapes, forward does not raise and returns a
\* tensor of shape (batch, length, length, 37).
C1_AsStated ==
    (Called /\ InputsInRange) =>
        /\ pc # "error"
        /\ pc = "done" => out.shape = <<inp.b, inp.n, inp.n, 37>>

\* C2 as stated: every sub-layer applied to m belongs to msa_layers and
\* every sub-layer applied to x belongs to layers.
C2_AsStated ==
    \A c \in 1..Len(calls) :
        /\ calls[c].on = "m" => calls[c].mod.stack = "msa_layers"
        /\ calls[c].on = "x" => calls[c].mod.stack = "layers"

\* the modules applied to `on` in layer l, in the order of application
AppliedTo(l, on) ==
    LET sel == SelectSeq(calls, LAMBDA c : c.mod.layer = l /\ c.on = on)
    IN  [k \in 1..Len(sel) |-> sel[k].mod]
TimesApplied(mod) == Cardinality({c \in 1..Len(calls) : calls[c].mod = mod})

\* C5 as stated: a completed forward pass has applied, in each layer, the
\* three sub-layers of layers[l] to x in order and the three sub-layers of
\* msa_layers[l] to m in order, every constructed sub-layer exactly once.
C5_AsStated ==
    pc = "done" =>
        \A l \in 1..cfg.depth :
            /\ AppliedTo(l, "x") = Layers(l)
            /\ AppliedTo(l, "m") = MsaLayers(l)
            /\ \A k \in 1..3 : TimesApplied(Layers(l)[k]) = 1
            /\ \A k \in 1..3 : TimesApplied(MsaLayers(l)[k]) = 1

\* C3: nothing computed from msa or msa_mask ever flows into x, so the
\* returned logits are computed from seq and mask alone and are the same for
\* any two msa / msa_mask inputs.
C3_NoMsaFlow ==
    /\ Embedded => t.x.src \cap {"msa", "msa_mask"} = {}
    /\ pc = "done" => out.src \subseteq {"seq", "mask"}

\* a completed pass of at least one layer with an msa_mask, where m did read
\* both msa and msa_mask
C3_Witness ==
    /\ pc = "done" /\ cfg.depth >= 1 /\ inp.a >= 2
    /\ exists(inp.msa_mask) /\ t.m.src = {"msa", "msa_mask"}
    /\ Len(calls) = 4 * cfg.depth

\* C7 as stated: with num_tokens = V, tokens below V are embedded (the
\* lookup does not raise) and a token >= V raises at the embedding lookup.
C7_AsStated ==
    Called =>
        /\ (inp.seqTok < cfg.num_tokens /\ inp.msaTok < cfg.num_tokens
               /\ inp.n <= cfg.max_seq_len)
              => ~(pc = "error" /\ out.raised = "IndexError")
        /\ (inp.seqTok >= cfg.num_tokens \/ inp.msaTok >= cfg.num_tokens)
              => (pc = "error" /\ out.raised = "IndexError")

\* the seq positions of batch element bb whose mask entry is true
ValidPos(bb) == {<<bb, p>> : p \in {q \in 1..inp.n : MaskAt(inp.mask, bb, q)}}

\* C10: with a mask supplied, after every statement of the trunk and in the
\* returned logits, a cell (i, j) with mask[i] and mask[j] true is computed
\* from seq positions whose mask entry is true only.
C10_NoPaddingLeak ==
    (Embedded /\ exists(inp.mask)) =>
        /\ \A c \in DOMAIN t.x.dep :
              (MaskAt(inp.mask, c[1], c[2]) /\ MaskAt(inp.mask, c[1], c[3]))
                  => t.x.dep[c] \subseteq ValidPos(c[1])
        /\ pc = "done" =>
              \A c \in DOMAIN out.dep :
                  (MaskAt(inp.mask, c[1], c[2]) /\ MaskAt(inp.mask, c[1], c[3]))
                      => out.dep[c] \subseteq ValidPos(c[1])

\* two layers over a sequence with padding: a valid cell that has read other
\* valid positions, next to a padded cell that has read padding
C10_Witness ==
    /\ pc = "done" /\ exists(inp.mask) /\ cfg.depth >= 2 /\ inp.n >= 3
    /\ \E c \in DOMAIN out.dep :
          /\ MaskAt(inp.mask, c[1], c[2]) /\ MaskAt(inp.mask, c[1], c[3])
          /\ Cardinality(out.dep[c]) >= 2
    /\ \E c \in DOMAIN out.dep : ~(out.dep[c] \subseteq ValidPos(c[1]))

\* ------------------------------------------------------------------------
\* Properties of Attention.forward
\* ------------------------------------------------------------------------
AtWeighted == at_pc \in {"softmaxed", "returned"}
AtFilled == at_pc \in {"masked", "softmaxed", "returned"}
AtBatch == 1..at_in.b
AtPos == 1..at_in.n

\* a weight below epsilon = 1e-6: num / den < 1 / EpsDen
EpsDen == 10 ^ 6
BelowEps(w, j) == w.num[j] * EpsDen < w.den

\* Query i of batch element k has no key left: the query itself is masked, or
\* every key is.
RowAllMasked(k, i) ==
    \/ ~MaskAt(at_in.mask, k, i)
    \/ \A j \in AtPos : ~MaskAt(at_in.mask, k, j)

\* The data-flow view of Attention agrees with its arithmetic: the weight on
\* key j is non-zero exactly when AttnSupport says query i reads key j.
AtSupportExact ==
    AtWeighted =>
        \A bb \in AtBatch : \A i \in AtPos : \A j \in AtPos :
            (at_attn[bb][i].num[j] > 0) <=> AttnSupport(at_in.mask, at_in.n, bb, i, j)

\* C4 as stated: with a mask supplied, for every query position and every
\* key position whose mask entry is false, the softmax weight on that key is
\* below epsilon.
C4_AsStated ==
    (AtWeighted /\ exists(at_in.mask)) =>
        \A bb \in AtBatch : \A i \in AtPos : \A j \in AtPos :
            ~MaskAt(at_in.mask, bb, j) => BelowEps(at_attn[bb][i], j)

\* C4 amended: with a mask supplied, for every query position whose own mask
\* entry is true and every key position whose mask entry is false, the
\* softmax weight on that key is below epsilon.
C4_ValidQuery ==
    (AtWeighted /\ exists(at_in.mask)) =>
        \A bb \in AtBatch : \A i \in AtPos : \A j \in AtPos :
            (MaskAt(at_in.mask, bb, i) /\ ~MaskAt(at_in.mask, bb, j))
                => BelowEps(at_attn[bb][i], j)

\* a valid query with a masked key whose raw score is the row's largest
C4_Witness ==
    /\ at_pc = "returned" /\ exists(at_in.mask)
    /\ \E bb \in AtBatch : \E i \in AtPos : \E j \in AtPos :
          /\ MaskAt(at_in.mask, bb, i) /\ ~MaskAt(at_in.mask, bb, j)
          /\ \A jj \in AtPos : at_qkv.q[bb][i] * at_qkv.k[bb][jj]
                                  <= at_qkv.q[bb][i] * at_qkv.k[bb][j]
          /\ \E jj \in AtPos : at_qkv.q[bb][i] * at_qkv.k[bb][jj]
                                  < at_qkv.q[bb][i] * at_qkv.k[bb][j]

\* C6 as stated: a mask whose shape is not exactly (b, n) is rejected, the
\* call never gets past the mask fill.
C6_AsStated ==
    (exists(at_in.mask) /\ <<at_in.mask.mb, at_in.mask.mn>> # <<at_in.b, at_in.n>>)
        => ~AtFilled

\* C9: every score whose query or key is masked is replaced by the one finite
\* value -FltMax; a row with every key masked gets the uniform weights 1/n
\* (a positive denominator, no NaN) and its weighted sum is the mean of v.
C9_Degenerate ==
    exists(at_in.mask) =>
        /\ AtFilled =>
              \A bb \in AtBatch : \A i \in AtPos : \A j \in AtPos :
                  ~(MaskAt(at_in.mask, bb, i) /\ MaskAt(at_in.mask, bb, j))
                      => at_dots[bb][i][j] = -FltMax
        /\ AtWeighted =>
              \A bb \in AtBatch : \A i \in AtPos :
                  RowAllMasked(bb, i) =>
                      /\ at_attn[bb][i].den > 0
                      /\ \A j \in AtPos :
                            at_attn[bb][i].num[j] * at_in.n = at_attn[bb][i].den
        /\ at_pc = "returned" =>
              \A bb \in AtBatch : \A i \in AtPos :
                  RowAllMasked(bb, i) =>
                      at_out.av[bb][i].num * at_in.n
                          = at_out.av[bb][i].den * SumSeq(at_qkv.v[bb])

\* a masked query next to a valid key, in a row whose raw scores differ and
\* over values that differ
C9_Witness ==
    /\ at_pc = "returned" /\ exists(at_in.mask) /\ at_in.n >= 2
    /\ \E bb \in AtBatch : \E i \in AtPos : \E j \in AtPos :
          /\ ~MaskAt(at_in.mask, bb, i) /\ MaskAt(at_in.mask, bb, j)
          /\ at_qkv.v[bb][i] # at_qkv.v[bb][j]
          /\ at_qkv.q[bb][i] * at_qkv.k[bb][i] # at_qkv.q[bb][i] * at_qkv.k[bb][j]

\* ------------------------------------------------------------------------
\* Properties of AxialAttention.forward
\* ------------------------------------------------------------------------
AxCells == Cells(ax_in.x.b, ax_in.x.h, ax_in.x.w)
Row(c) == {d \in AxCells : d[1] = c[1] /\ d[2] = c[2]}
Column(c) == {d \in AxCells : d[1] = c[1] /\ d[3] = c[3]}
AxWidthDone == ax_pc \in {"width_done", "height_done", "returned"}
AxHeightDone == ax_pc \in {"height_done", "returned"}

====
